---- MODULE Spec2Model ----
(***************************************************************************)
(* Model of the superSoundBoy server: a Flask application with a login     *)
(* form, a single `user` table and a Flask-Restless API for it guarded by  *)
(* an authentication preprocessor on GET.                                  *)
(*                                                                         *)
(* The repository holds the application twice: as one module               *)
(* (server/__init__.py) and split into a package (server/app/).  The two   *)
(* copies differ in one respect that matters: server/app/views.py uses the *)
(* name `User` without importing it, so its login view and its user loader *)
(* raise NameError when they reach that name.  `program` says which copy   *)
(* is running.                                                             *)
(*                                                                         *)
(* Requests are handled one at a time (the development server of app.run() *)
(* is single threaded), so every request is one atomic step.               *)
(***************************************************************************)
EXTENDS Integers, FiniteSets, TLC

VARIABLES
    program,    \* "module" (server/__init__.py) or "package" (server/app/)
    users,      \* the rows of the user table
    secretKey,  \* app.config['SECRET_KEY'] of the running process
    cookie,     \* per client: the session cookie it holds (signing key, user_id)
    req,        \* the request handled by the last step
    resp,       \* the response to it
    presented,  \* history: per client, the credentials of its successful logins
    orphaned,   \* history: per client, its user row was deleted since its last GET on the API
    pristine    \* history: no POST or DELETE since the last process start

vars == <<program, users, secretKey, cookie, req, resp, presented, orphaned, pristine>>

(***************************************************************************)
(* Bounds of the model.                                                    *)
(***************************************************************************)
MaxId == 2          \* POST is not issued once it would assign an id above this
MaxBoots == 1       \* number of process restarts explored

Sessions == {"s1", "s2"}
\* the username/password pairs that requests carry
NewUsers == {<<"example", "example">>, <<"andy", "pw">>}      \* bodies of POST /api/user
Credentials == NewUsers \cup {<<"example", "pw">>}            \* forms of POST /login
Programs == {"module", "package"}

None == 0           \* no user_id in the session / no id in the request

NoRow == [id |-> 0, username |-> "", password |-> ""]        \* Python None
Raised == [id |-> -1, username |-> "", password |-> ""]      \* NameError raised

NoReq == [op |-> "START", sess |-> "", username |-> "", password |-> "", id |-> None]
NoResp == [status |-> 0, body |-> {}, description |-> "", flash |-> "",
           location |-> "", template |-> ""]

Ids(tbl) == {r.id : r \in tbl}

MaxOf(S) == CHOOSE x \in S : \A y \in S : y <= x

(***************************************************************************)
(* The User model: an integer primary key without AUTOINCREMENT.  SQLite   *)
(* gives a new row the largest id in the table plus one, and 1 in an empty *)
(* table, so the id of a deleted row can be assigned again.                *)
(***************************************************************************)
\* a numbering by row count instead of by largest id
NextId_count(tbl) == Cardinality(tbl) + 1

NextId(tbl) == IF tbl = {} THEN 1 ELSE MaxOf(Ids(tbl)) + 1

User(tbl, username, password) ==
    [id |-> NextId(tbl), username |-> username, password |-> password]

(* db.create_all(); db.session.add(User(u'example', u'example')); commit   *)
SeedTable == {User({}, "example", "example")}

(***************************************************************************)
(* The session as the server reads it: a cookie signed with another key    *)
(* than the process's SECRET_KEY does not verify and yields an empty       *)
(* session.                                                                *)
(***************************************************************************)
SessionUserId(s) == IF cookie[s].key = secretKey THEN cookie[s].uid ELSE None

(* User.query.get(userid): the row with that primary key, or None.  In     *)
(* the package the name User is not defined in views.py.                   *)
load_user(userid) ==
    IF program = "package" THEN Raised
    ELSE IF \E r \in users : r.id = userid
         THEN CHOOSE r \in users : r.id = userid
         ELSE NoRow

(* flask.ext.login.current_user: the loaded user of the session's user_id, *)
(* the anonymous user when there is no user_id or the loader returns None. *)
current_user(s) ==
    IF SessionUserId(s) = None THEN NoRow ELSE load_user(SessionUserId(s))

is_authenticated(s) == current_user(s).id > 0

\* a preprocessor that never raises ProcessingException
auth_func_open(s) == IF current_user(s) = Raised THEN 500 ELSE 200

(* the preprocessor of GET_SINGLE and GET_MANY *)
auth_func(s) ==
    IF current_user(s) = Raised THEN 500
    ELSE IF ~is_authenticated(s) THEN 401
    ELSE 200

(* User.query.filter_by(username=username, password=password).all() *)
Matches(username, password) ==
    {r \in users : r.username = username /\ r.password = password}

Request(op, s, u, p, i) ==
    [op |-> op, sess |-> s, username |-> u, password |-> p, id |-> i]

\* a process start that keeps the SECRET_KEY of the previous process
Bootstrap_samekey ==
    /\ secretKey < MaxBoots
    /\ secretKey' = secretKey
    /\ users' = SeedTable
    /\ req' = Request("BOOT", "", "", "", None)
    /\ resp' = NoResp
    /\ orphaned' = [s \in Sessions |-> FALSE]
    /\ pristine' = TRUE
    /\ presented' = [s \in Sessions |-> {}]
    /\ UNCHANGED <<program, cookie>>

(***************************************************************************)
(* Process start: the database file is unlinked, a new SECRET_KEY is       *)
(* drawn, the schema is created and the seed user inserted.  The clients   *)
(* keep the cookies they hold.                                             *)
(***************************************************************************)
Bootstrap ==
    /\ secretKey < MaxBoots
    /\ secretKey' = secretKey + 1
    /\ users' = SeedTable
    /\ req' = Request("BOOT", "", "", "", None)
    /\ resp' = NoResp
    /\ orphaned' = [s \in Sessions |-> FALSE]
    /\ pristine' = TRUE
    /\ presented' = [s \in Sessions |-> {}]
    /\ UNCHANGED <<program, cookie>>

(* GET / *)
index(s) ==
    /\ req' = Request("INDEX", s, "", "", None)
    /\ resp' = [NoResp EXCEPT !.status = 200, !.template = "index.html"]
    /\ UNCHANGED <<program, users, secretKey, cookie, presented, orphaned, pristine>>

(* GET /login: validate_on_submit() is false, the form is rendered *)
login_get(s) ==
    /\ req' = Request("LOGIN_GET", s, "", "", None)
    /\ resp' = [NoResp EXCEPT !.status = 200, !.template = "login.html"]
    /\ UNCHANGED <<program, users, secretKey, cookie, presented, orphaned, pristine>>

(***************************************************************************)
(* POST /login.  The form has no validators and TESTING switches the CSRF  *)
(* check off, so every POST validates.  matches[0] is any of the matching  *)
(* rows: the query has no ORDER BY.  login_user stores the row's id in the *)
(* session; flash stores the message in the session, which is then signed  *)
(* with the current key.                                                   *)
(***************************************************************************)
login(s, username, password) ==
    /\ req' = Request("LOGIN_POST", s, username, password, None)
    /\ IF program = "package"
       THEN /\ resp' = [NoResp EXCEPT !.status = 500, !.description = "NameError"]
            /\ UNCHANGED <<cookie, presented, orphaned>>
       ELSE IF Cardinality(Matches(username, password)) > 0
       THEN \E m \in Matches(username, password) :
            /\ cookie' = [cookie EXCEPT ![s] = [key |-> secretKey, uid |-> m.id]]
            /\ resp' = [NoResp EXCEPT !.status = 302, !.location = "index"]
            /\ presented' = [presented EXCEPT
                                ![s] = @ \cup {<<username, password>>}]
            /\ orphaned' = [orphaned EXCEPT ![s] = FALSE]
       ELSE /\ cookie' = [cookie EXCEPT
                            ![s] = [key |-> secretKey, uid |-> SessionUserId(s)]]
            /\ resp' = [NoResp EXCEPT !.status = 200, !.template = "login.html",
                            !.flash = "Username and password pair not found"]
            /\ UNCHANGED <<presented, orphaned>>
    /\ UNCHANGED <<program, users, secretKey, pristine>>

(* the response of a GET that the preprocessor stopped *)
Rejected(code) ==
    [NoResp EXCEPT !.status = code,
                   !.description = IF code = 401 THEN "Not Authorized" ELSE "NameError"]

\* a collection GET that returns the row of the current user only
api_get_many_own(s) ==
    /\ req' = Request("GET_MANY", s, "", "", None)
    /\ resp' = IF auth_func(s) # 200 THEN Rejected(auth_func(s))
               ELSE [NoResp EXCEPT !.status = 200, !.body = {current_user(s)}]
    /\ orphaned' = [orphaned EXCEPT ![s] = FALSE]
    /\ UNCHANGED <<program, users, secretKey, cookie, presented, pristine>>

(* GET /api/user *)
api_get_many(s) ==
    /\ req' = Request("GET_MANY", s, "", "", None)
    /\ resp' = IF auth_func(s) # 200 THEN Rejected(auth_func(s))
               ELSE [NoResp EXCEPT !.status = 200, !.body = users]
    /\ orphaned' = [orphaned EXCEPT ![s] = FALSE]
    /\ UNCHANGED <<program, users, secretKey, cookie, presented, pristine>>

(* GET /api/user/<id> *)
api_get_single(s, i) ==
    /\ req' = Request("GET_SINGLE", s, "", "", i)
    /\ resp' = IF auth_func(s) # 200 THEN Rejected(auth_func(s))
               ELSE IF i \in Ids(users)
               THEN [NoResp EXCEPT !.status = 200, !.body = {r \in users : r.id = i}]
               ELSE [NoResp EXCEPT !.status = 404]
    /\ orphaned' = [orphaned EXCEPT ![s] = FALSE]
    /\ UNCHANGED <<program, users, secretKey, cookie, presented, pristine>>

\* a POST that has auth_func among its preprocessors
api_post_gated(s, username, password) ==
    /\ NextId(users) <= MaxId
    /\ req' = Request("POST", s, username, password, None)
    /\ IF auth_func(s) # 200
       THEN /\ resp' = Rejected(auth_func(s))
            /\ UNCHANGED <<users, pristine>>
       ELSE /\ users' = users \cup {User(users, username, password)}
            /\ resp' = [NoResp EXCEPT !.status = 201,
                                      !.body = {User(users, username, password)}]
            /\ pristine' = FALSE
    /\ UNCHANGED <<program, secretKey, cookie, presented, orphaned>>

(* POST /api/user with a body of username and password: no preprocessor *)
api_post(s, username, password) ==
    /\ NextId(users) <= MaxId
    /\ req' = Request("POST", s, username, password, None)
    /\ users' = users \cup {User(users, username, password)}
    /\ resp' = [NoResp EXCEPT !.status = 201,
                              !.body = {User(users, username, password)}]
    /\ pristine' = FALSE
    /\ UNCHANGED <<program, secretKey, cookie, presented, orphaned>>

\* a DELETE whose query has lost its filter on the id
api_delete_all(s, i) ==
    /\ req' = Request("DELETE", s, "", "", i)
    /\ users' = IF i \in Ids(users) THEN {} ELSE users
    /\ \E code \in {204, 404} :
        /\ i \in Ids(users) => code = 204
        /\ resp' = [NoResp EXCEPT !.status = code]
    /\ orphaned' = [t \in Sessions |->
                       orphaned[t] \/ (i \in Ids(users) /\ SessionUserId(t) = i)]
    /\ pristine' = FALSE
    /\ UNCHANGED <<program, secretKey, cookie, presented>>

(***************************************************************************)
(* DELETE /api/user/<id>: no preprocessor.  For an id that has no row the  *)
(* table is left alone; the status is 204 or 404 depending on the release  *)
(* of Flask-Restless.                                                      *)
(***************************************************************************)
api_delete(s, i) ==
    /\ req' = Request("DELETE", s, "", "", i)
    /\ users' = {r \in users : r.id # i}
    /\ \E code \in {204, 404} :
        /\ i \in Ids(users) => code = 204
        /\ resp' = [NoResp EXCEPT !.status = code]
    /\ orphaned' = [t \in Sessions |->
                       orphaned[t] \/ (i \in Ids(users) /\ SessionUserId(t) = i)]
    /\ pristine' = FALSE
    /\ UNCHANGED <<program, secretKey, cookie, presented>>

Init ==
    /\ program \in Programs
    /\ users = SeedTable
    /\ secretKey = 0
    /\ cookie = [s \in Sessions |-> [key |-> 0, uid |-> None]]
    /\ req = NoReq
    /\ resp = NoResp
    /\ presented = [s \in Sessions |-> {}]
    /\ orphaned = [s \in Sessions |-> FALSE]
    /\ pristine = TRUE

Next ==
    \/ Bootstrap
    \/ \E s \in Sessions : index(s)
    \/ \E s \in Sessions : login_get(s)
    \/ \E s \in Sessions, c \in Credentials : login(s, c[1], c[2])
    \/ \E s \in Sessions : api_get_many(s)
    \/ \E s \in Sessions, i \in 1..MaxId : api_get_single(s, i)
    \/ \E s \in Sessions, c \in NewUsers : api_post(s, c[1], c[2])
    \/ \E s \in Sessions, i \in 1..MaxId : api_delete(s, i)

Spec == Init /\ [][Next]_vars

(***************************************************************************)
(* Properties.  A step is identified by the request it handles: req' is    *)
(* the request of the step, resp' its response, and the unprimed variables *)
(* are the state the request arrived in.                                   *)
(***************************************************************************)
Gets == {"GET_MANY", "GET_SINGLE"}

SeedRow == [id |-> 1, username |-> "example", password |-> "example"]

NotFoundMessage == "Username and password pair not found"

(* C1: a GET on the user collection or on one user by a session that is    *)
(* not authenticated is answered 401 'Not Authorized' without user data,   *)
(* and neither the user table nor the session changes.                     *)
C1_UnauthenticatedGetRejected ==
    [][(req'.op \in Gets /\ ~is_authenticated(req'.sess))
         => /\ resp'.status = 401
            /\ resp'.description = "Not Authorized"
            /\ resp'.body = {}
            /\ users' = users
            /\ cookie' = cookie]_vars

(* a GET for the id of an existing row was rejected while the table held two rows *)
C1_Witness ==
    /\ req.op = "GET_SINGLE"
    /\ resp.status = 401
    /\ req.id \in Ids(users)
    /\ Cardinality(users) = 2

(* C2: a POST to /login whose username and password equal both fields of  *)
(* some row redirects to the index page and leaves the session identifying *)
(* a row with the submitted username and password.                         *)
C2_LoginEstablishesSession ==
    [][\A s \in Sessions :
        (req'.op = "LOGIN_POST" /\ req'.sess = s
            /\ Matches(req'.username, req'.password) # {})
         => /\ resp'.status = 302
            /\ resp'.location = "index"
            /\ \E r \in users' :
                /\ r.id = SessionUserId(s)'
                /\ r.username = req'.username
                /\ r.password = req'.password]_vars

(* C3: a POST to /login whose pair matches no row re-renders the form with *)
(* the message, does not redirect, and leaves the session's user and the   *)
(* user table as they were.                                                *)
C3_FailedLoginRerenders ==
    [][\A s \in Sessions :
        (req'.op = "LOGIN_POST" /\ req'.sess = s
            /\ Matches(req'.username, req'.password) = {})
         => /\ resp'.status = 200
            /\ resp'.template = "login.html"
            /\ resp'.flash = NotFoundMessage
            /\ resp'.location = ""
            /\ SessionUserId(s)' = SessionUserId(s)
            /\ users' = users]_vars

C5_DeleteThenGetNotFound ==
    [][/\ (req'.op = "DELETE" /\ req'.id \in Ids(users))
          => /\ resp'.status = 204
             /\ users' = {r \in users : r.id # req'.id}
       /\ (req.op = "DELETE" /\ req'.op = "GET_SINGLE" /\ req'.id = req.id)
          => resp'.status = 404]_vars

(* C5, amended: the GET that follows returns not-found when its session is *)
(* authenticated and is rejected with 401 when it is not.                  *)
C5_DeleteThenAuthenticatedGetNotFound ==
    [][/\ (req'.op = "DELETE" /\ req'.id \in Ids(users))
          => /\ resp'.status = 204
             /\ users' = {r \in users : r.id # req'.id}
       /\ (req.op = "DELETE" /\ req'.op = "GET_SINGLE" /\ req'.id = req.id)
          => resp'.status = IF is_authenticated(req'.sess) THEN 404 ELSE 401]_vars

(* a row was deleted, another row remains, and some session is still authenticated *)
C5_Witness ==
    /\ req.op = "DELETE"
    /\ resp.status = 204
    /\ req.id \notin Ids(users)
    /\ users # {}
    /\ \E s \in Sessions : is_authenticated(s)

C7_StartResetsStoreAndSessions ==
    [][req'.op = "BOOT"
         => /\ users' = {SeedRow}
            /\ \A s \in Sessions : ~is_authenticated(s)']_vars

(* the process restarted while a client held the cookie of a login as user 1 *)
C7_Witness ==
    /\ req.op = "BOOT"
    /\ \E s \in Sessions : cookie[s].uid = 1

UniqueIds == \A r1, r2 \in users : r1.id = r2.id => r1 = r2

(* C8: no two rows have the same id; between process starts a row either   *)
(* stays as it is or disappears together with its id; and a POST with a    *)
(* username that is already in the table still adds a row.                 *)
C8_RowsImmutableIdsUnique ==
    /\ UniqueIds
    /\ [][/\ UniqueIds'
          /\ req'.op # "BOOT"
             => \A r \in users : r \in users' \/ r.id \notin Ids(users')
          /\ (req'.op = "POST" /\ \E r \in users : r.username = req'.username)
             => Cardinality(users') = Cardinality(users) + 1]_vars

(* two rows hold the same username *)
C8_Witness ==
    \E r1, r2 \in users : r1.id # r2.id /\ r1.username = r2.username

(* C9: a GET on the user API is let through exactly when the user id of    *)
(* the session is the id of a row of the table; and once the row of a      *)
(* session's user has been deleted, the next GET of that session is        *)
(* answered 401.                                                           *)
C9_DeletedUserIsLoggedOut ==
    [][req'.op \in Gets
         => /\ (resp'.status # 401) <=> (SessionUserId(req'.sess) \in Ids(users))
            /\ orphaned[req'.sess] => resp'.status = 401]_vars

(* C10: a session that the auth gate accepts resolves to a row whose       *)
(* username and password that session submitted in a successful login.     *)
C10_AuthenticatedAsPresented ==
    \A s \in Sessions :
        is_authenticated(s)
            => <<current_user(s).username, current_user(s).password>> \in presented[s]
====
